---- MODULE Spec2Model ----
(***************************************************************************)
(* Inline revision system of the document editor.                          *)
(*                                                                         *)
(* Texts are sequences of characters, positions are 0-based offsets as in  *)
(* the TypeScript source.  A document is the record DocumentWithRevisions  *)
(* of src/src/utils/revisions.ts; the operators below follow that file     *)
(* function by function.                                                   *)
(***************************************************************************)
EXTENDS Integers, Sequences, FiniteSets, TLC

\* ------------------------------------------------------------------ bounds

\* Longest initial base text.
MaxLen == 2

\* Most revisions created, or suggestions applied, in one run.
MaxRevs == 2

\* Most input events of the user in one run.
MaxTyped == 1

\* Most chunks in the streamed response to one AI request.
MaxChunks == 2

\* ------------------------------------------------------------------- texts

\* The initial base texts: the first n letters, so that every position of a
\* text holds a different character and a misplaced splice shows.
Letters == <<"a", "b", "c", "d", "e", "f">>

BaseTexts == { SubSeq(Letters, 1, n) : n \in 0..MaxLen }

\* The replacement texts a proposal may carry: none (a pure deletion), and
\* one that is longer than a one-character range.
NewTexts == { <<>>, <<"x", "y">> }

Min(a, b) == IF a < b THEN a ELSE b

Max(a, b) == IF a < b THEN b ELSE a

Clamp(n, len) == Max(0, Min(n, len))

\* String.prototype.substring(a, b): both arguments are clamped to
\* [0, length] and swapped when a > b.
Substring(s, a, b) ==
    LET ca == Clamp(a, Len(s))
        cb == Clamp(b, Len(s))
    IN  SubSeq(s, Min(ca, cb) + 1, Max(ca, cb))

\* String.prototype.substring(a): to the end of the string.
SubstringFrom(s, a) == Substring(s, a, Len(s))

\* The ranges <<startPos, endPos>> a caller may propose over a text: every
\* valid one, one whose startPos exceeds its endPos and one that ends past
\* the end of the text.
ValidRanges(content) ==
    { r \in (0..Len(content)) \X (0..Len(content)) : r[1] <= r[2] }

Ranges(content) ==
    ValidRanges(content) \cup { <<1, 0>>, <<0, Len(content) + 1>> }

\* Array.prototype.join('') of a sequence of texts.
RECURSIVE Join(_)
Join(ts) == IF ts = <<>> THEN <<>> ELSE Head(ts) \o Join(Tail(ts))

\* ---------------------------------------------------------------- revisions

\* activeRevisionId: null.
NoId == 0

\* generateRevisionId(): the n-th revision created draws three fresh ids, for
\* itself, its originalSpan and its newSpan.
RevisionId(n) == 3 * n - 2

OriginalSpanId(n) == 3 * n - 1

NewSpanId(n) == 3 * n

\* generateRevisionId() inside buildTextSpans: the k-th span of a build gets
\* an id that no revision and no other span of the build carries.
FreshSpanId(k) == 0 - k

\* createRevision whose newSpan ends where the original range ends.
createRevisionInsertedToEnd(content, startPos, endPos, newText, n) ==
    [ id |-> RevisionId(n),
      originalSpan |-> [ id |-> OriginalSpanId(n),
                         type |-> "deleted",
                         text |-> Substring(content, startPos, endPos),
                         startPos |-> startPos,
                         endPos |-> endPos ],
      newSpan |-> IF newText # <<>>
                  THEN << [ id |-> NewSpanId(n),
                            type |-> "inserted",
                            text |-> newText,
                            startPos |-> startPos,
                            endPos |-> endPos ] >>
                  ELSE <<>>,
      status |-> "pending" ]

\* createRevision that captures the text from startPos to the end of content.
createRevisionCapturesRest(content, startPos, endPos, newText, n) ==
    [ id |-> RevisionId(n),
      originalSpan |-> [ id |-> OriginalSpanId(n),
                         type |-> "deleted",
                         text |-> SubstringFrom(content, startPos),
                         startPos |-> startPos,
                         endPos |-> endPos ],
      newSpan |-> IF newText # <<>>
                  THEN << [ id |-> NewSpanId(n),
                            type |-> "inserted",
                            text |-> newText,
                            startPos |-> startPos,
                            endPos |-> startPos ] >>
                  ELSE <<>>,
      status |-> "pending" ]

\* createRevision(content, startPos, endPos, newText), the n-th creation.
\* newSpan: TextSpan | null is a sequence of no or one span.
createRevision(content, startPos, endPos, newText, n) ==
    [ id |-> RevisionId(n),
      originalSpan |-> [ id |-> OriginalSpanId(n),
                         type |-> "deleted",
                         text |-> Substring(content, startPos, endPos),
                         startPos |-> startPos,
                         endPos |-> endPos ],
      newSpan |-> IF newText # <<>>
                  THEN << [ id |-> NewSpanId(n),
                            type |-> "inserted",
                            text |-> newText,
                            startPos |-> startPos,
                            endPos |-> startPos ] >>
                  ELSE <<>>,
      status |-> "pending" ]

\* revision.newSpan?.text || ''
NewTextOf(r) == IF r.newSpan = <<>> THEN <<>> ELSE r.newSpan[1].text

\* Whether the comparator of a sort puts a strictly before b: its result is
\* negative.  ascending: a.startPos - b.startPos; otherwise b.startPos - a.startPos.
ComparesBefore(a, b, ascending) ==
    IF ascending
    THEN a.originalSpan.startPos - b.originalSpan.startPos < 0
    ELSE b.originalSpan.startPos - a.originalSpan.startPos < 0

\* One step of a stable sort: x goes before the first element it compares
\* before, and after every element it compares equal to.
RECURSIVE InsertSorted(_, _, _)
InsertSorted(x, sorted, ascending) ==
    IF sorted = <<>> THEN <<x>>
    ELSE IF ComparesBefore(x, Head(sorted), ascending) THEN <<x>> \o sorted
         ELSE <<Head(sorted)>> \o InsertSorted(x, Tail(sorted), ascending)

\* Array.prototype.sort with one of the two comparators: stable.
RECURSIVE SortedBy(_, _)
SortedBy(seq, ascending) ==
    IF seq = <<>> THEN <<>>
    ELSE InsertSorted(seq[Len(seq)],
                      SortedBy(SubSeq(seq, 1, Len(seq) - 1), ascending),
                      ascending)

\* [...revisions].sort((a, b) => a.originalSpan.startPos - b.originalSpan.startPos)
SortAscending(revisions) == SortedBy(revisions, TRUE)

\* .sort((a, b) => b.originalSpan.startPos - a.originalSpan.startPos)
SortDescending(revisions) == SortedBy(revisions, FALSE)

\* The spans one revision adds in the loop of buildTextSpans, after `spans`,
\* with the cursor at currentPos.
SpansOfRevision(baseContent, revision, currentPos, spans) ==
    LET unchanged ==
            IF currentPos < revision.originalSpan.startPos
            THEN << [ id |-> FreshSpanId(Len(spans) + 1),
                      type |-> "unchanged",
                      text |-> Substring(baseContent, currentPos,
                                         revision.originalSpan.startPos),
                      startPos |-> currentPos,
                      endPos |-> revision.originalSpan.startPos ] >>
            ELSE <<>>
        shown ==
            IF revision.status = "accepted"
            THEN IF revision.newSpan # <<>>
                 THEN << [ revision.newSpan[1] EXCEPT !.type = "unchanged" ] >>
                 ELSE <<>>
            ELSE << [ revision.originalSpan EXCEPT !.type = "deleted" ] >>
                 \o (IF revision.newSpan # <<>>
                     THEN << [ revision.newSpan[1] EXCEPT !.type = "inserted" ] >>
                     ELSE <<>>)
    IN  unchanged \o shown

\* The for loop of buildTextSpans over the sorted revisions, and the
\* remaining unchanged text after it.
RECURSIVE BuildLoop(_, _, _, _)
BuildLoop(baseContent, sorted, currentPos, spans) ==
    IF sorted = <<>>
    THEN IF currentPos < Len(baseContent)
         THEN Append(spans, [ id |-> FreshSpanId(Len(spans) + 1),
                              type |-> "unchanged",
                              text |-> SubstringFrom(baseContent, currentPos),
                              startPos |-> currentPos,
                              endPos |-> Len(baseContent) ])
         ELSE spans
    ELSE LET revision == Head(sorted)
         IN  IF revision.status = "rejected"
             THEN BuildLoop(baseContent, Tail(sorted), currentPos, spans)
             ELSE BuildLoop(baseContent, Tail(sorted),
                            revision.originalSpan.endPos,
                            spans \o SpansOfRevision(baseContent, revision,
                                                     currentPos, spans))

buildTextSpans(baseContent, revisions) ==
    BuildLoop(baseContent, SortAscending(revisions), 0, <<>>)

\* Two calls of buildTextSpans, told apart by what generateRevisionId draws.
Calls == { 1, 2 }

\* The ids generateRevisionId gives in one call differ from those of the other.
CallSpanId(id, call) == IF id < 0 THEN id * 2 - call ELSE id

\* The list reversed.
Reversed(seq) == [ i \in 1..Len(seq) |-> seq[Len(seq) + 1 - i] ]

\* One call of buildTextSpans with a sort whose order among revisions of the
\* same startPos depends on the call.
buildTextSpansCallUnstable(baseContent, revisions, call) ==
    LET spans == buildTextSpans(baseContent,
                                IF call = 1 THEN revisions ELSE Reversed(revisions))
    IN  [ i \in 1..Len(spans) |->
            [ spans[i] EXCEPT !.id = CallSpanId(spans[i].id, call) ] ]

\* One call of buildTextSpans: the spans, with the ids that call generated.
buildTextSpansCall(baseContent, revisions, call) ==
    LET spans == buildTextSpans(baseContent, revisions)
    IN  [ i \in 1..Len(spans) |->
            [ spans[i] EXCEPT !.id = CallSpanId(spans[i].id, call) ] ]

\* The loop of applyAcceptedRevisions over the accepted revisions.
RECURSIVE ApplyLoop(_, _)
ApplyLoop(result, accepted) ==
    IF accepted = <<>> THEN result
    ELSE LET revision == Head(accepted)
             before == Substring(result, 0, revision.originalSpan.startPos)
             after == SubstringFrom(result, revision.originalSpan.endPos)
         IN  ApplyLoop(before \o NewTextOf(revision) \o after, Tail(accepted))

applyAcceptedRevisions(baseContent, revisions) ==
    LET IsAccepted(r) == r.status = "accepted"
    IN  ApplyLoop(baseContent, SortDescending(SelectSeq(revisions, IsAccepted)))

\* The revisions of a document, as a set.
Revs(d) == { d.revisions[i] : i \in 1..Len(d.revisions) }

HasId(revisions, revisionId) ==
    \E i \in 1..Len(revisions) : revisions[i].id = revisionId

\* acceptRevision with the base text left as it was: the accepted revision
\* is purged and its replacement never spliced in.
acceptRevisionKeepsBase(d, revisionId) ==
    LET Others(r) == r.id # revisionId
    IN  [ d EXCEPT !.revisions = SelectSeq(d.revisions, Others) ]

\* acceptRevision without the purge: the accepted revision stays listed.
acceptRevisionKeepsAccepted(d, revisionId) ==
    IF ~HasId(d.revisions, revisionId) THEN d
    ELSE LET updatedRevisions ==
                 [ i \in 1..Len(d.revisions) |->
                     IF d.revisions[i].id = revisionId
                     THEN [ d.revisions[i] EXCEPT !.status = "accepted" ]
                     ELSE d.revisions[i] ]
         IN  [ d EXCEPT
                 !.baseContent = applyAcceptedRevisions(d.baseContent, updatedRevisions),
                 !.revisions = updatedRevisions ]

\* acceptRevision without the early return: when no revision has the id, the
\* list is emptied and the active revision forgotten.
acceptRevisionClearsUnknown(d, revisionId) ==
    IF ~HasId(d.revisions, revisionId)
    THEN [ d EXCEPT !.revisions = <<>>, !.activeRevisionId = NoId ]
    ELSE LET updatedRevisions ==
                 [ i \in 1..Len(d.revisions) |->
                     IF d.revisions[i].id = revisionId
                     THEN [ d.revisions[i] EXCEPT !.status = "accepted" ]
                     ELSE d.revisions[i] ]
             NotAccepted(r) == r.status # "accepted"
         IN  [ d EXCEPT
                 !.baseContent = applyAcceptedRevisions(d.baseContent, updatedRevisions),
                 !.revisions = SelectSeq(updatedRevisions, NotAccepted) ]

\* acceptRevision that re-anchors: the revisions that start at or after the
\* end of the accepted range move by the change of length.
acceptRevisionReanchors(d, revisionId) ==
    IF ~HasId(d.revisions, revisionId) THEN d
    ELSE LET accepted == CHOOSE r \in Revs(d) : r.id = revisionId
             delta == Len(NewTextOf(accepted))
                      - (accepted.originalSpan.endPos - accepted.originalSpan.startPos)
             Moved(span) == [ span EXCEPT !.startPos = @ + delta,
                                          !.endPos = @ + delta ]
             updatedRevisions ==
                 [ i \in 1..Len(d.revisions) |->
                     IF d.revisions[i].id = revisionId
                     THEN [ d.revisions[i] EXCEPT !.status = "accepted" ]
                     ELSE d.revisions[i] ]
             NotAccepted(r) == r.status # "accepted"
             kept == SelectSeq(updatedRevisions, NotAccepted)
         IN  [ d EXCEPT
                 !.baseContent = applyAcceptedRevisions(d.baseContent, updatedRevisions),
                 !.revisions =
                     [ i \in 1..Len(kept) |->
                         IF kept[i].originalSpan.startPos >= accepted.originalSpan.endPos
                         THEN [ kept[i] EXCEPT
                                  !.originalSpan = Moved(@),
                                  !.newSpan = [ j \in 1..Len(@) |-> Moved(@[j]) ] ]
                         ELSE kept[i] ] ]

acceptRevision(d, revisionId) ==
    IF ~HasId(d.revisions, revisionId) THEN d
    ELSE LET updatedRevisions ==
                 [ i \in 1..Len(d.revisions) |->
                     IF d.revisions[i].id = revisionId
                     THEN [ d.revisions[i] EXCEPT !.status = "accepted" ]
                     ELSE d.revisions[i] ]
             NotAccepted(r) == r.status # "accepted"
         IN  [ d EXCEPT
                 !.baseContent = applyAcceptedRevisions(d.baseContent, updatedRevisions),
                 !.revisions = SelectSeq(updatedRevisions, NotAccepted) ]

\* rejectRevision with the filter inverted: r.id === revisionId.
rejectRevisionKeepsOnly(d, revisionId) ==
    LET Same(r) == r.id = revisionId
    IN  [ d EXCEPT !.revisions = SelectSeq(d.revisions, Same) ]

\* rejectRevision that removes the first revision when none has the id.
rejectRevisionOrFirst(d, revisionId) ==
    LET Others(r) == r.id # revisionId
    IN  IF HasId(d.revisions, revisionId) \/ d.revisions = <<>>
        THEN [ d EXCEPT !.revisions = SelectSeq(d.revisions, Others) ]
        ELSE [ d EXCEPT !.revisions = Tail(d.revisions) ]

rejectRevision(d, revisionId) ==
    LET Others(r) == r.id # revisionId
    IN  [ d EXCEPT !.revisions = SelectSeq(d.revisions, Others) ]

\* getFinalContent filtering on the wrong kind: span.type !== 'unchanged'.
getFinalContentDropsUnchanged(d) ==
    LET NotUnchanged(span) == span.type # "unchanged"
        spans == SelectSeq(buildTextSpans(d.baseContent, d.revisions), NotUnchanged)
    IN  Join([ i \in 1..Len(spans) |-> spans[i].text ])

getFinalContent(d) ==
    LET NotDeleted(span) == span.type # "deleted"
        spans == SelectSeq(buildTextSpans(d.baseContent, d.revisions), NotDeleted)
    IN  Join([ i \in 1..Len(spans) |-> spans[i].text ])

\* The template literals of getFullContextContent, character by character.
DeletedMarker(text) ==
    <<"[", "D", "E", "L", "E", "T", "E", "D", ":", " ">> \o text \o <<"]">>

InsertedMarker(text) ==
    <<"[", "I", "N", "S", "E", "R", "T", "E", "D", ":", " ">> \o text \o <<"]">>

\* getFullContextContent with inserted spans passed through as plain text.
getFullContextContentPlainInserted(d) ==
    LET spans == buildTextSpans(d.baseContent, d.revisions)
    IN  Join([ i \in 1..Len(spans) |->
                 IF spans[i].type = "deleted" THEN DeletedMarker(spans[i].text)
                 ELSE spans[i].text ])

getFullContextContent(d) ==
    LET spans == buildTextSpans(d.baseContent, d.revisions)
    IN  Join([ i \in 1..Len(spans) |->
                 IF spans[i].type = "deleted" THEN DeletedMarker(spans[i].text)
                 ELSE IF spans[i].type = "inserted" THEN InsertedMarker(spans[i].text)
                 ELSE spans[i].text ])

\* The loop of acceptAllRevisions: over the revisions of the document it was
\* given, each accepted in the result so far.
RECURSIVE AcceptAllLoop(_, _)
AcceptAllLoop(result, revisions) ==
    IF revisions = <<>> THEN result
    ELSE IF Head(revisions).status = "pending"
         THEN AcceptAllLoop(acceptRevision(result, Head(revisions).id), Tail(revisions))
         ELSE AcceptAllLoop(result, Tail(revisions))

\* acceptAllRevisions that stops after the first revision of the list.
acceptAllRevisionsFirstOnly(d) ==
    IF d.revisions = <<>> THEN d
    ELSE AcceptAllLoop(d, <<d.revisions[1]>>)

acceptAllRevisions(d) == AcceptAllLoop(d, d.revisions)

\* rejectAllRevisions that also forgets the active revision.
rejectAllRevisionsDeactivates(d) ==
    LET NotPending(r) == r.status # "pending"
    IN  [ d EXCEPT !.revisions = SelectSeq(d.revisions, NotPending),
                   !.activeRevisionId = NoId ]

rejectAllRevisions(d) ==
    LET NotPending(r) == r.status # "pending"
    IN  [ d EXCEPT !.revisions = SelectSeq(d.revisions, NotPending) ]

\* Inserting a new pending revision into a document: the document update of
\* applyRevision, with baseContent kept.
insertRevision(d, startPos, endPos, newText, n) ==
    LET revision == createRevision(d.baseContent, startPos, endPos, newText, n)
    IN  [ d EXCEPT !.revisions = Append(d.revisions, revision),
                   !.activeRevisionId = revision.id ]

\* ------------------------------------------------------------------- editor

\* The two DocumentEditor components of the repository, by file.
Variants == { "DocumentEditor.tsx", "SelectionPopup.tsx" }

\* n spaces.
Spaces(n) == [ i \in 1..n |-> " " ]

\* The textContent of the accept and reject buttons that follow an inserted
\* span: the template's line breaks and indentation around the two marks.
\* "+" stands for the check mark and "-" for the ballot cross.
ButtonsText ==
    <<"\n">> \o Spaces(15) \o <<"+">> \o <<"\n">> \o Spaces(15) \o <<"-">>
    \o <<"\n">> \o Spaces(13)

\* The revision whose newSpan carries the id of an inserted span:
\* revisions.find(r => r.newSpan?.id === span.id), as a set of no or one id.
ButtonOwner(revisions, span) ==
    { revisions[i].id : i \in { j \in 1..Len(revisions) :
        /\ revisions[j].newSpan # <<>>
        /\ revisions[j].newSpan[1].id = span.id
        /\ \A k \in 1..(j - 1) :
              revisions[k].newSpan = <<>> \/ revisions[k].newSpan[1].id # span.id } }

\* The editor surface after innerHTML is set to the markup of a document's
\* spans: its textContent (the escaped text of a span parses back to the
\* text) and the revision ids its buttons carry.
RenderedText(d) ==
    LET spans == buildTextSpans(d.baseContent, d.revisions)
    IN  Join([ i \in 1..Len(spans) |->
                 IF spans[i].type = "inserted"
                    /\ ButtonOwner(d.revisions, spans[i]) # {}
                 THEN spans[i].text \o ButtonsText
                 ELSE spans[i].text ])

RenderedButtons(d) ==
    LET spans == buildTextSpans(d.baseContent, d.revisions)
    IN  UNION { ButtonOwner(d.revisions, spans[i]) :
                  i \in { j \in 1..Len(spans) : spans[j].type = "inserted" } }

\* InlineRevisionRenderer: the revision ids whose RevisionPair, with its
\* accept and reject buttons, is rendered.  A deleted span followed by an
\* inserted span is looked up by both span ids, any other deleted span by
\* its own id.
InlineRendererControls(d) ==
    LET spans == buildTextSpans(d.baseContent, d.revisions)
        Paired(i) == /\ spans[i].type = "deleted"
                     /\ i + 1 <= Len(spans)
                     /\ spans[i + 1].type = "inserted"
    IN  { r.id : r \in { q \in Revs(d) :
            \E i \in 1..Len(spans) :
               \/ /\ Paired(i)
                  /\ q.originalSpan.id = spans[i].id
                  /\ q.newSpan # <<>>
                  /\ q.newSpan[1].id = spans[i + 1].id
               \/ /\ spans[i].type = "deleted"
                  /\ ~Paired(i)
                  /\ q.originalSpan.id = spans[i].id } }

\* What handleSelect reports for a non-empty selection: a range of the
\* editor's textContent, here within its first MaxLen characters.
SelectionRanges(text) ==
    { r \in ValidRanges(text) : r[1] < r[2] /\ r[2] <= MaxLen }

\* The replacement an AI response gives: trimmed and not empty.
Suggestions == NewTexts \ { <<>> }

\* String.prototype.trim: without the white space at either end.
Trim(text) ==
    LET inked == { i \in 1..Len(text) : text[i] \notin { " ", "\n" } }
    IN  IF inked = {} THEN <<>>
        ELSE SubSeq(text, CHOOSE i \in inked : \A j \in inked : i <= j,
                          CHOOSE i \in inked : \A j \in inked : j <= i)

\* The chunks a streamed response is made of: white space, or text.
Chunks == { <<" ">>, <<"x", "y">> }

\* String.prototype.indexOf, 0-based, -1 when absent.
IndexOf(text, pattern) ==
    LET hits == { i \in 0..(Len(text) - Len(pattern)) :
                    SubSeq(text, i + 1, i + Len(pattern)) = pattern }
    IN  IF hits = {} THEN -1 ELSE CHOOSE i \in hits : \A j \in hits : i <= j

\* String.prototype.replace with a string pattern: the first occurrence.
ReplaceFirst(text, pattern, replacement) ==
    LET at == IndexOf(text, pattern)
    IN  IF at < 0 THEN text
        ELSE SubSeq(text, 1, at) \o replacement
             \o SubSeq(text, at + Len(pattern) + 1, Len(text))

\* -------------------------------------------------------------------- state

VARIABLES
    doc,            \* the document: revisionDoc in the editor
    prev,           \* history: the document before the last operation
    op,             \* history: the last operation and the revision id it named
    created,        \* how many suggestions have been applied
    variant,        \* which editor component is mounted ("none": no editor)
    mountContent,   \* the content prop at the editor's first render
    content,        \* the parent's document.content, the editor's content prop
    localContent,   \* the editor's localContent state
    editorText,     \* editorRef.current.textContent
    editorButtons,  \* the revision ids of the buttons in the editor surface
    isUpdating,     \* isUpdatingRef.current
    saveTimer,      \* the parent's pending debounced save: no or one content
    typed,          \* how many input events the user has made
    request,        \* the AI request of the selection popup: none or one
    pendingChange,  \* part_002: the pending change, none or one
    lastExternalContent,  \* part_002: lastExternalContentRef.current
    lastAccept      \* history, part_002: the last change accepted and the
                    \* localContent it was accepted in

docVars == <<doc, prev, op, created>>

editorVars ==
    <<variant, mountContent, content, localContent, editorText, editorButtons,
      isUpdating, saveTimer, typed, request, pendingChange,
      lastExternalContent, lastAccept>>

vars == <<docVars, editorVars>>

\* A document as a caller first holds it: no revisions.
NewDocument(text) ==
    [ baseContent |-> text, revisions |-> <<>>, activeRevisionId |-> NoId ]

NoOp == [ name |-> "none", id |-> NoId ]


Init ==
    /\ doc \in { NewDocument(t) : t \in BaseTexts }
    /\ prev = doc
    /\ op = NoOp
    /\ created = 0
    /\ variant = "none"
    /\ mountContent = <<>>
    /\ content = <<>>
    /\ localContent = <<>>
    /\ editorText = <<>>
    /\ editorButtons = {}
    /\ isUpdating = FALSE
    /\ saveTimer = <<>>
    /\ typed = 0
    /\ request = <<>>
    /\ pendingChange = <<>>
    /\ lastExternalContent = <<>>
    /\ lastAccept = <<>>

\* The ids a caller may name: those of the revisions created so far, and one
\* that no revision has.
KnownIds == { RevisionId(n) : n \in 1..(created + 1) }

Insert ==
    /\ created < MaxRevs
    /\ \E range \in Ranges(doc.baseContent), newText \in NewTexts :
          /\ doc' = insertRevision(doc, range[1], range[2], newText, created + 1)
          /\ op' = [ name |-> "insert", id |-> RevisionId(created + 1) ]
    /\ created' = created + 1
    /\ prev' = doc
    /\ UNCHANGED editorVars

Accept ==
    /\ \E revisionId \in KnownIds :
          /\ doc' = acceptRevision(doc, revisionId)
          /\ op' = [ name |-> "accept", id |-> revisionId ]
    /\ prev' = doc
    /\ UNCHANGED <<created, editorVars>>

Reject ==
    /\ \E revisionId \in KnownIds :
          /\ doc' = rejectRevision(doc, revisionId)
          /\ op' = [ name |-> "reject", id |-> revisionId ]
    /\ prev' = doc
    /\ UNCHANGED <<created, editorVars>>

AcceptAll ==
    /\ doc' = acceptAllRevisions(doc)
    /\ op' = [ name |-> "acceptAll", id |-> NoId ]
    /\ prev' = doc
    /\ UNCHANGED <<created, editorVars>>

RejectAll ==
    /\ doc' = rejectAllRevisions(doc)
    /\ op' = [ name |-> "rejectAll", id |-> NoId ]
    /\ prev' = doc
    /\ UNCHANGED <<created, editorVars>>

Next == Insert \/ Accept \/ Reject \/ AcceptAll \/ RejectAll

Spec == Init /\ [][Next]_vars

\* Proposals with valid ranges, and no acceptance: a caller that inserts
\* revisions over ranges of the base text and rejects them.
InsertValid ==
    /\ created < MaxRevs
    /\ \E range \in ValidRanges(doc.baseContent), newText \in NewTexts :
          /\ doc' = insertRevision(doc, range[1], range[2], newText, created + 1)
          /\ op' = [ name |-> "insert", id |-> RevisionId(created + 1) ]
    /\ created' = created + 1
    /\ prev' = doc
    /\ UNCHANGED editorVars

RejectOnlyNext == InsertValid \/ Reject \/ RejectAll

RejectOnlySpec == Init /\ [][RejectOnlyNext]_vars

\* ------------------------------------------------------- the editor, mounted

\* The first render: EditorWorkspace mounts the editor once the document is
\* loaded; revisionDoc starts from the content prop and the mount effect
\* fills the empty editor surface with it.
EditorInit ==
    /\ variant \in Variants
    /\ mountContent \in BaseTexts
    /\ content = mountContent
    /\ localContent = mountContent
    /\ doc = NewDocument(mountContent)
    /\ prev = doc
    /\ op = NoOp
    /\ created = 0
    /\ editorText = mountContent
    /\ editorButtons = {}
    /\ isUpdating = FALSE
    /\ saveTimer = <<>>
    /\ typed = 0
    /\ request = <<>>
    /\ pendingChange = <<>>
    /\ lastExternalContent = <<>>
    /\ lastAccept = <<>>

\* revisionDoc as handleEditorClick sees it.  handleEditorClick is memoized
\* with no dependencies, so the accept and reject handlers it calls are those
\* of the first render, which hold the first render's revisionDoc.
ClickDoc == NewDocument(mountContent)

\* applyRevision(startPos, endPos, newText), reached through
\* window.__editorApplyRevision with the selected range and a suggestion.
EditorApplyRevision ==
    /\ created < MaxRevs
    /\ \E range \in SelectionRanges(editorText), newText \in Suggestions :
          LET base == IF variant = "DocumentEditor.tsx"
                      THEN editorText
                      ELSE doc.baseContent
              updatedDoc == insertRevision([ doc EXCEPT !.baseContent = base ],
                                           range[1], range[2], newText, created + 1)
          IN  /\ doc' = updatedDoc
              /\ editorText' = RenderedText(updatedDoc)
              /\ editorButtons' = RenderedButtons(updatedDoc)
              /\ op' = [ name |-> "apply", id |-> RevisionId(created + 1) ]
    /\ created' = created + 1
    /\ prev' = doc
    /\ UNCHANGED <<pendingChange, lastExternalContent, lastAccept,
                   variant, mountContent, request, content, localContent, isUpdating,
                   saveTimer, typed>>

\* handleContentInput: the user has typed a character at the end of the
\* editor surface.
EditorInput ==
    /\ typed < MaxTyped
    /\ typed' = typed + 1
    /\ LET newText == Append(editorText, "z")
       IN  /\ editorText' = newText
           /\ isUpdating' = TRUE
           /\ IF Len(doc.revisions) = 0
              THEN /\ localContent' = newText
                   /\ doc' = [ doc EXCEPT !.baseContent = newText ]
                   /\ saveTimer' = <<newText>>
              ELSE UNCHANGED <<localContent, doc, saveTimer>>
    /\ op' = [ name |-> "input", id |-> NoId ]
    /\ prev' = doc
    /\ UNCHANGED <<created, pendingChange, lastExternalContent, lastAccept,
                   variant, mountContent, request, content, editorButtons>>

\* The timeout of handleContentInput, 100 ms after an input event.
EditorInputTimeout ==
    /\ isUpdating
    /\ isUpdating' = FALSE
    /\ UNCHANGED <<docVars, pendingChange, lastExternalContent, lastAccept,
                   variant, mountContent, request, content, localContent,
                   editorText, editorButtons, saveTimer, typed>>

\* A click on the accept button of a revision: handleEditorClick calls the
\* first render's handleAcceptRevision.
EditorAcceptClick ==
    /\ \E revisionId \in editorButtons :
          /\ op' = [ name |-> "acceptClick", id |-> revisionId ]
          /\ IF variant = "DocumentEditor.tsx"
             THEN LET updated == acceptRevision(ClickDoc, revisionId)
                      finalContent == getFinalContent(updated)
                  IN  /\ doc' = updated
                      /\ saveTimer' = <<finalContent>>
                      /\ IF Len(updated.revisions) = 0
                         THEN /\ editorText' = finalContent
                              /\ editorButtons' = {}
                         ELSE /\ editorText' = RenderedText(ClickDoc)
                              /\ editorButtons' = RenderedButtons(ClickDoc)
             ELSE IF ~HasId(ClickDoc.revisions, revisionId)
                  THEN UNCHANGED <<doc, saveTimer, editorText, editorButtons>>
                  ELSE LET revision ==
                               CHOOSE r \in Revs(ClickDoc) : r.id = revisionId
                           newContent ==
                               Substring(ClickDoc.baseContent, 0,
                                         revision.originalSpan.startPos)
                               \o NewTextOf(revision)
                               \o SubstringFrom(ClickDoc.baseContent,
                                                revision.originalSpan.endPos)
                           updated ==
                               [ rejectRevision(ClickDoc, revisionId)
                                   EXCEPT !.baseContent = newContent ]
                       IN  /\ doc' = updated
                           /\ saveTimer' = <<newContent>>
                           /\ editorText' = IF Len(updated.revisions) = 0
                                            THEN newContent
                                            ELSE RenderedText(updated)
                           /\ editorButtons' = IF Len(updated.revisions) = 0
                                               THEN {}
                                               ELSE RenderedButtons(updated)
    /\ prev' = doc
    /\ UNCHANGED <<created, pendingChange, lastExternalContent, lastAccept,
                   variant, mountContent, request, content, localContent,
                   isUpdating, typed>>

\* A click on the reject button of a revision: handleEditorClick calls the
\* first render's handleRejectRevision.
EditorRejectClick ==
    /\ \E revisionId \in editorButtons :
          /\ op' = [ name |-> "rejectClick", id |-> revisionId ]
          /\ LET updated == rejectRevision(ClickDoc, revisionId)
             IN  /\ doc' = updated
                 /\ IF Len(updated.revisions) = 0
                    THEN /\ editorText' =
                               IF variant = "DocumentEditor.tsx"
                               THEN getFinalContent(updated)
                               ELSE updated.baseContent
                         /\ editorButtons' = {}
                    ELSE /\ editorText' =
                               IF variant = "DocumentEditor.tsx"
                               THEN RenderedText(ClickDoc)
                               ELSE RenderedText(updated)
                         /\ editorButtons' =
                               IF variant = "DocumentEditor.tsx"
                               THEN RenderedButtons(ClickDoc)
                               ELSE RenderedButtons(updated)
    /\ prev' = doc
    /\ UNCHANGED <<created, pendingChange, lastExternalContent, lastAccept,
                   variant, mountContent, request, content, localContent,
                   isUpdating, saveTimer, typed>>

\* pendingRevisions of the render: the toolbar shows its two buttons when it
\* is positive.
PendingCount(d) ==
    Cardinality({ i \in 1..Len(d.revisions) : d.revisions[i].status = "pending" })

\* handleAcceptAll.  buildEditorHTML is the one of the render, over the
\* document as it was before the click.
EditorAcceptAll ==
    /\ PendingCount(doc) > 0
    /\ LET updated == acceptAllRevisions(doc)
       IN  /\ doc' = updated
           /\ saveTimer' = <<getFinalContent(updated)>>
    /\ editorText' = RenderedText(doc)
    /\ editorButtons' = RenderedButtons(doc)
    /\ op' = [ name |-> "acceptAll", id |-> NoId ]
    /\ prev' = doc
    /\ UNCHANGED <<created, pendingChange, lastExternalContent, lastAccept,
                   variant, mountContent, request, content, localContent,
                   isUpdating, typed>>

\* handleRejectAll, with the render's buildEditorHTML as well.
EditorRejectAll ==
    /\ PendingCount(doc) > 0
    /\ doc' = rejectAllRevisions(doc)
    /\ editorText' = RenderedText(doc)
    /\ editorButtons' = RenderedButtons(doc)
    /\ op' = [ name |-> "rejectAll", id |-> NoId ]
    /\ prev' = doc
    /\ UNCHANGED <<created, pendingChange, lastExternalContent, lastAccept,
                   variant, mountContent, request, content, localContent,
                   isUpdating, saveTimer, typed>>

\* The editor's effect on [content, localContent], run after the parent has
\* set its document.content to newContent.
ContentArrives(newContent) ==
    /\ content' = newContent
    /\ IF newContent # localContent /\ ~isUpdating
       THEN /\ localContent' = newContent
            /\ doc' = [ doc EXCEPT !.baseContent = newContent ]
            /\ IF Len(doc.revisions) = 0
               THEN /\ editorText' = newContent
                    /\ editorButtons' = {}
               ELSE UNCHANGED <<editorText, editorButtons>>
       ELSE UNCHANGED <<localContent, doc, editorText, editorButtons>>
    /\ prev' = doc

\* The parent's debounced save, 1000 ms after the last onChange:
\* saveDocument sets document.content.
ParentSave ==
    /\ saveTimer # <<>>
    /\ ContentArrives(saveTimer[1])
    /\ saveTimer' = <<>>
    /\ op' = [ name |-> "parentSave", id |-> NoId ]
    /\ UNCHANGED <<created, pendingChange, lastExternalContent, lastAccept,
                   variant, mountContent, request, isUpdating, typed>>

\* handleApplySuggestion without a selected range: the parent replaces the
\* suggestion's original text, a text that was selected in the editor, in
\* document.content and saves it.
ParentReplace ==
    /\ created < MaxRevs
    /\ \E range \in SelectionRanges(editorText), suggestion \in Suggestions :
          ContentArrives(ReplaceFirst(content,
                                      Substring(editorText, range[1], range[2]),
                                      suggestion))
    /\ created' = created + 1
    /\ op' = [ name |-> "parentReplace", id |-> NoId ]
    /\ UNCHANGED <<pendingChange, lastExternalContent, lastAccept,
                   variant, mountContent, request, isUpdating, saveTimer, typed>>

\* isGenerating: a request of the selection popup is awaiting its response.
IsGenerating == request # <<>> /\ request[1].state = "streaming"

\* What is left of a request once handlePopupSubmit has returned: how it
\* ended and whether the popup was closed on it.
Finished(r, state) ==
    [ range |-> <<0, 0>>,
      revisionDoc |-> NewDocument(<<>>),
      number |-> r.number,
      response |-> <<>>,
      chunks |-> 0,
      closed |-> r.closed,
      state |-> state ]

\* handlePopupSubmit up to its await, in the component that has the popup:
\* the text selected by handleSelect (trimmed, its end counted from the start
\* of the selection) and the applyRevision of this render, which holds this
\* render's revisionDoc, stay with the request.  The request counts as a
\* suggestion from its submission on.
PopupSubmit ==
    /\ variant = "SelectionPopup.tsx"
    /\ ~IsGenerating
    /\ created < MaxRevs
    /\ \E range \in SelectionRanges(editorText) :
          LET selectedText == Trim(Substring(editorText, range[1], range[2]))
          IN  /\ selectedText # <<>>
              /\ request' = << [ range |-> <<range[1], range[1] + Len(selectedText)>>,
                                 revisionDoc |-> doc,
                                 number |-> created + 1,
                                 response |-> <<>>,
                                 chunks |-> 0,
                                 closed |-> FALSE,
                                 state |-> "streaming" ] >>
    /\ created' = created + 1
    /\ op' = [ name |-> "submit", id |-> NoId ]
    /\ prev' = doc
    /\ UNCHANGED <<doc, pendingChange, lastExternalContent, lastAccept,
                   variant, mountContent, content, localContent,
                   editorText, editorButtons, isUpdating, saveTimer, typed>>

\* for await (const chunk of stream) aiResponse += chunk
StreamChunk ==
    /\ IsGenerating
    /\ request[1].chunks < MaxChunks
    /\ \E chunk \in Chunks :
          request' = << [ request[1] EXCEPT !.response = @ \o chunk,
                                            !.chunks = @ + 1 ] >>
    /\ op' = [ name |-> "chunk", id |-> NoId ]
    /\ prev' = doc
    /\ UNCHANGED <<doc, created, pendingChange, lastExternalContent, lastAccept,
                   variant, mountContent, content, localContent,
                   editorText, editorButtons, isUpdating, saveTimer, typed>>

\* handlePopupClose while the request is awaited: a mouse press outside the
\* popup and the editor.  The popup goes; the stream is not told.
PopupClose ==
    /\ IsGenerating
    /\ ~request[1].closed
    /\ request' = << [ request[1] EXCEPT !.closed = TRUE ] >>
    /\ op' = [ name |-> "close", id |-> NoId ]
    /\ prev' = doc
    /\ UNCHANGED <<doc, created, pendingChange, lastExternalContent, lastAccept,
                   variant, mountContent, content, localContent,
                   editorText, editorButtons, isUpdating, saveTimer, typed>>

\* The stream ends: handlePopupSubmit after its await.  A response that is
\* not blank goes to the applyRevision the request was submitted with.
StreamEnd ==
    /\ IsGenerating
    /\ request' = << Finished(request[1], "done") >>
    /\ LET newText == Trim(request[1].response)
           updatedDoc == insertRevision(request[1].revisionDoc,
                                        request[1].range[1], request[1].range[2],
                                        newText, request[1].number)
       IN  IF newText # <<>>
           THEN /\ doc' = updatedDoc
                /\ editorText' = RenderedText(updatedDoc)
                /\ editorButtons' = RenderedButtons(updatedDoc)
                /\ op' = [ name |-> "response",
                           id |-> RevisionId(request[1].number) ]
           ELSE /\ UNCHANGED <<doc, editorText, editorButtons>>
                /\ op' = [ name |-> "blankResponse", id |-> NoId ]
    /\ prev' = doc
    /\ UNCHANGED <<created, pendingChange, lastExternalContent, lastAccept,
                   variant, mountContent, content, localContent, isUpdating,
                   saveTimer, typed>>

\* The stream throws: the catch of handlePopupSubmit reports it.
StreamFail ==
    /\ IsGenerating
    /\ request' = << Finished(request[1], "failed") >>
    /\ op' = [ name |-> "failedResponse", id |-> NoId ]
    /\ prev' = doc
    /\ UNCHANGED <<doc, created, pendingChange, lastExternalContent, lastAccept,
                   variant, mountContent, content, localContent,
                   editorText, editorButtons, isUpdating, saveTimer, typed>>

EditorNext ==
    \/ EditorApplyRevision
    \/ EditorInput
    \/ EditorInputTimeout
    \/ EditorAcceptClick
    \/ EditorRejectClick
    \/ EditorAcceptAll
    \/ EditorRejectAll
    \/ ParentSave
    \/ ParentReplace
    \/ PopupSubmit
    \/ StreamChunk
    \/ PopupClose
    \/ StreamEnd
    \/ StreamFail

EditorSpec == EditorInit /\ [][EditorNext]_vars

\* ------------------------------- the editor with one pending change, part_002

\* The first render of the textarea editor.
PendingInit ==
    /\ variant = "part_002"
    /\ mountContent \in BaseTexts
    /\ content = mountContent
    /\ localContent = mountContent
    /\ lastExternalContent = mountContent
    /\ pendingChange = <<>>
    /\ lastAccept = <<>>
    /\ doc = NewDocument(<<>>)
    /\ prev = doc
    /\ op = NoOp
    /\ created = 0
    /\ editorText = <<>>
    /\ editorButtons = {}
    /\ isUpdating = FALSE
    /\ saveTimer = <<>>
    /\ typed = 0
    /\ request = <<>>

\* The effect on [content, pendingChange], run after a render in which the
\* content prop is newContent, the pending change is change and localContent
\* has been set to local.
SyncEffect(newContent, change, local) ==
    IF newContent # lastExternalContent /\ ~isUpdating /\ change = <<>>
    THEN /\ localContent' = newContent
         /\ lastExternalContent' = newContent
    ELSE /\ localContent' = local
         /\ lastExternalContent' = lastExternalContent

\* The effect, when the handler has set lastExternalContentRef itself.
SyncEffectAfterApply(newContent, updatedContent) ==
    IF newContent # updatedContent /\ ~isUpdating
    THEN /\ localContent' = newContent
         /\ lastExternalContent' = newContent
    ELSE /\ localContent' = updatedContent
         /\ lastExternalContent' = updatedContent

\* What an input event leaves in the textarea: a character more at the end,
\* or the first character deleted.
InputValues(text) ==
    { Append(text, "z") } \cup (IF text = <<>> THEN {} ELSE { Tail(text) })

\* createPendingChange(startPos, endPos, newText) of a render whose
\* localContent is local.
createPendingChange(local, startPos, endPos, newText) ==
    [ originalText |-> Substring(local, startPos, endPos),
      newText |-> newText,
      range |-> <<startPos, endPos>> ]

\* handleContentChange: the user edits the textarea.
PendingInput ==
    /\ typed < MaxTyped
    /\ typed' = typed + 1
    /\ \E newContent \in InputValues(localContent) :
          /\ localContent' = newContent
          /\ saveTimer' = <<newContent>>
    /\ isUpdating' = TRUE
    /\ pendingChange' = <<>>
    /\ op' = [ name |-> "input", id |-> NoId ]
    /\ UNCHANGED <<doc, prev, created, variant, mountContent, content, editorText,
                   editorButtons, request, lastExternalContent, lastAccept>>

\* window.__editorApplyRevision: a chat suggestion becomes the pending change.
PendingApply ==
    /\ created < MaxRevs
    /\ created' = created + 1
    /\ \E range \in SelectionRanges(localContent), newText \in Suggestions :
          pendingChange' = << createPendingChange(localContent, range[1],
                                                  range[2], newText) >>
    /\ op' = [ name |-> "apply", id |-> NoId ]
    /\ UNCHANGED <<doc, prev, variant, mountContent, content, localContent,
                   editorText, editorButtons, isUpdating, saveTimer, typed,
                   request, lastExternalContent, lastAccept>>

\* acceptPendingChange: applyChange with the range and text of the pending
\* change, and the effect that follows the render without a pending change.
PendingAccept ==
    /\ pendingChange # <<>>
    /\ LET change == pendingChange[1]
           updatedContent ==
               Substring(localContent, 0, change.range[1])
               \o change.newText
               \o SubstringFrom(localContent, change.range[2])
       IN  /\ saveTimer' = <<updatedContent>>
           /\ SyncEffectAfterApply(content, updatedContent)
           /\ lastAccept' = << [ change |-> change, localContent |-> localContent ] >>
    /\ pendingChange' = <<>>
    /\ op' = [ name |-> "acceptChange", id |-> NoId ]
    /\ UNCHANGED <<doc, prev, created, variant, mountContent, content, editorText,
                   editorButtons, isUpdating, typed, request>>

\* rejectPendingChange, and the effect that follows.
PendingReject ==
    /\ pendingChange # <<>>
    /\ pendingChange' = <<>>
    /\ UNCHANGED isUpdating
    /\ SyncEffect(content, <<>>, localContent)
    /\ op' = [ name |-> "rejectChange", id |-> NoId ]
    /\ UNCHANGED <<doc, prev, created, variant, mountContent, content, editorText,
                   editorButtons, saveTimer, typed, request, lastAccept>>

\* The parent's debounced save sets the content prop; the effect follows.
PendingParentSave ==
    /\ saveTimer # <<>>
    /\ content' = saveTimer[1]
    /\ saveTimer' = <<>>
    /\ UNCHANGED isUpdating
    /\ IF saveTimer[1] # content
       THEN SyncEffect(saveTimer[1], pendingChange, localContent)
       ELSE UNCHANGED <<localContent, lastExternalContent>>
    /\ op' = [ name |-> "parentSave", id |-> NoId ]
    /\ UNCHANGED <<doc, prev, created, variant, mountContent, editorText,
                   editorButtons, typed, request, pendingChange, lastAccept>>

\* handlePopupSubmit up to its await.  The popup is rendered when no change
\* is pending; the selection of the textarea and the createPendingChange of
\* this render, which holds this render's localContent, stay with the request.
PendingSubmit ==
    /\ pendingChange = <<>>
    /\ ~IsGenerating
    /\ created < MaxRevs
    /\ created' = created + 1
    /\ \E range \in SelectionRanges(localContent) :
          request' = << [ range |-> range,
                          localContent |-> localContent,
                          number |-> created + 1,
                          response |-> <<>>,
                          chunks |-> 0,
                          closed |-> FALSE,
                          state |-> "streaming" ] >>
    /\ op' = [ name |-> "submit", id |-> NoId ]
    /\ UNCHANGED <<doc, prev, variant, mountContent, content, localContent,
                   editorText, editorButtons, isUpdating, saveTimer, typed,
                   pendingChange, lastExternalContent, lastAccept>>

\* What is left of a request of this editor once handlePopupSubmit has
\* returned.
FinishedChange(r, state) ==
    [ range |-> <<0, 0>>,
      localContent |-> <<>>,
      number |-> r.number,
      response |-> <<>>,
      chunks |-> 0,
      closed |-> r.closed,
      state |-> state ]

\* The stream ends: a response that is not blank goes to the
\* createPendingChange the request was submitted with.
PendingStreamEnd ==
    /\ IsGenerating
    /\ request' = << FinishedChange(request[1], "done") >>
    /\ LET newText == Trim(request[1].response)
       IN  IF newText # <<>>
           THEN /\ pendingChange' =
                      << createPendingChange(request[1].localContent,
                                             request[1].range[1],
                                             request[1].range[2], newText) >>
                /\ op' = [ name |-> "response", id |-> NoId ]
           ELSE /\ UNCHANGED pendingChange
                /\ op' = [ name |-> "blankResponse", id |-> NoId ]
    /\ UNCHANGED <<doc, prev, created, variant, mountContent, content,
                   localContent, editorText, editorButtons, isUpdating,
                   saveTimer, typed, lastExternalContent, lastAccept>>

\* The stream throws.
PendingStreamFail ==
    /\ IsGenerating
    /\ request' = << FinishedChange(request[1], "failed") >>
    /\ op' = [ name |-> "failedResponse", id |-> NoId ]
    /\ UNCHANGED <<doc, prev, created, variant, mountContent, content,
                   localContent, editorText, editorButtons, isUpdating,
                   saveTimer, typed, pendingChange, lastExternalContent,
                   lastAccept>>

PendingNext ==
    \/ PendingInput
    \/ EditorInputTimeout
    \/ PendingApply
    \/ PendingAccept
    \/ PendingReject
    \/ PendingParentSave
    \/ PendingSubmit
    \/ StreamChunk
    \/ PopupClose
    \/ PendingStreamEnd
    \/ PendingStreamFail

PendingSpec == PendingInit /\ [][PendingNext]_vars

\* ------------------------------------------------- vocabulary of the claims

AllPending(d) == \A r \in Revs(d) : r.status = "pending"

\* 0 <= startPos <= endPos <= length of the text
ValidRange(r, text) ==
    /\ 0 <= r.originalSpan.startPos
    /\ r.originalSpan.startPos <= r.originalSpan.endPos
    /\ r.originalSpan.endPos <= Len(text)

AllValid(d) == \A r \in Revs(d) : ValidRange(r, d.baseContent)

\* Two half-open ranges overlap when each starts before the other ends.
Overlap(a, b) ==
    /\ a.originalSpan.startPos < b.originalSpan.endPos
    /\ b.originalSpan.startPos < a.originalSpan.endPos

NonOverlapping(d) ==
    \A i, j \in 1..Len(d.revisions) :
        i # j => ~Overlap(d.revisions[i], d.revisions[j])

\* text.substring(0, s) + newText + text.substring(e), for a valid range.
Splice(text, s, e, newText) ==
    SubSeq(text, 1, s) \o newText \o SubSeq(text, e + 1, Len(text))

SpliceRevision(text, r) ==
    Splice(text, r.originalSpan.startPos, r.originalSpan.endPos, NewTextOf(r))

\* The orders in which a list of revisions is in descending startPos order
\* (revisions with the same startPos in either order).
DescendingOrders(revisions) ==
    { p \in [1..Len(revisions) -> 1..Len(revisions)] :
        /\ \A i, j \in 1..Len(revisions) : i # j => p[i] # p[j]
        /\ \A i, j \in 1..Len(revisions) :
              i < j => revisions[p[i]].originalSpan.startPos
                         >= revisions[p[j]].originalSpan.startPos }

\* Splicing the revisions into text one at a time in the order p, from
\* the k-th on.
RECURSIVE FoldFrom(_, _, _, _)
FoldFrom(text, revisions, p, k) ==
    IF k > Len(revisions) THEN text
    ELSE FoldFrom(SpliceRevision(text, revisions[p[k]]), revisions, p, k + 1)

\* The texts obtained by splicing every revision into text one at a time
\* in descending startPos order.
DescendingFolds(text, revisions) ==
    { FoldFrom(text, revisions, p, 1) : p \in DescendingOrders(revisions) }

\* How many spans of kind unchanged or deleted cover the character at pos.
Coverage(spans, pos) ==
    Cardinality({ i \in 1..Len(spans) :
        /\ spans[i].type \in {"unchanged", "deleted"}
        /\ spans[i].startPos <= pos
        /\ pos < spans[i].endPos })

\* ------------------------------------------------------------------- claims

\* C1: accepting the single pending revision r of a document, over a valid
\* range [s,e) of its base text T with replacement N, gives baseContent
\* T.substring(0,s) + N + T.substring(e) and an empty revisions list.
C1_AcceptReproducesSplice ==
    ( /\ op.name = "accept"
      /\ Len(prev.revisions) = 1
      /\ prev.revisions[1].id = op.id
      /\ prev.revisions[1].status = "pending"
      /\ ValidRange(prev.revisions[1], prev.baseContent) )
    => /\ doc.baseContent = SpliceRevision(prev.baseContent, prev.revisions[1])
       /\ doc.revisions = <<>>

\* A single revision that replaces a non-empty range by a non-empty text has
\* been accepted.
C1_Witness ==
    /\ op.name = "accept"
    /\ Len(prev.revisions) = 1
    /\ prev.revisions[1].id = op.id
    /\ ValidRange(prev.revisions[1], prev.baseContent)
    /\ prev.revisions[1].originalSpan.startPos < prev.revisions[1].originalSpan.endPos
    /\ prev.revisions[1].newSpan # <<>>
    /\ doc.baseContent # prev.baseContent

\* C2: rejecting a revision that is in the list leaves baseContent as it was,
\* removes that revision and keeps every other revision.
C2_RejectKeepsContent ==
    (op.name = "reject" /\ HasId(prev.revisions, op.id))
    => /\ doc.baseContent = prev.baseContent
       /\ ~HasId(doc.revisions, op.id)
       /\ \A r \in Revs(prev) : r.id # op.id => r \in Revs(doc)
       /\ Revs(doc) \subseteq Revs(prev)

\* One of two pending revisions has been rejected.
C2_Witness ==
    /\ op.name = "reject"
    /\ HasId(prev.revisions, op.id)
    /\ Len(prev.revisions) = 2
    /\ Len(doc.revisions) = 1

\* C3: for pending revisions with mutually non-overlapping valid ranges, in
\* any list order, acceptAllRevisions gives the base text obtained by
\* splicing the revisions one at a time in descending startPos order.
C3_AcceptAllEqualsDescendingFold ==
    ( /\ op.name = "acceptAll"
      /\ AllPending(prev)
      /\ AllValid(prev)
      /\ NonOverlapping(prev) )
    => doc.baseContent \in DescendingFolds(prev.baseContent, prev.revisions)

\* C4: for two pending revisions with non-overlapping valid ranges, accepting
\* one and then the other by two acceptRevision calls gives the base text with
\* both ranges replaced, whichever is accepted first.  The first call is the
\* step taken, the second is applied to its result.
C4_SequentialAcceptsArePositional ==
    ( /\ op.name = "accept"
      /\ Len(prev.revisions) = 2
      /\ HasId(prev.revisions, op.id)
      /\ AllPending(prev)
      /\ AllValid(prev)
      /\ NonOverlapping(prev) )
    => \A r \in Revs(doc) :
          acceptRevision(doc, r.id).baseContent
              \in DescendingFolds(prev.baseContent, prev.revisions)

\* C5: for pending revisions with mutually non-overlapping valid ranges,
\* getFinalContent is the base text with every revision's range replaced by
\* its replacement.
C5_FinalContentReplacesRanges ==
    (AllPending(doc) /\ AllValid(doc) /\ NonOverlapping(doc))
    => getFinalContent(doc) \in DescendingFolds(doc.baseContent, doc.revisions)

\* C6: for non-overlapping revisions, every character position of baseContent
\* is covered by exactly one span of kind unchanged or deleted.
C6_SpanKindCompleteness ==
    (AllPending(doc) /\ AllValid(doc) /\ NonOverlapping(doc))
    => \A pos \in 0..(Len(doc.baseContent) - 1) :
          Coverage(buildTextSpans(doc.baseContent, doc.revisions), pos) = 1

\* C7: every element of revisions has status pending, after any sequence of
\* inserts, accepts, rejects, accept-all and reject-all.
C7_OnlyPendingRevisions ==
    \A r \in Revs(doc) : r.status = "pending"

\* One of two revisions has been accepted and the other is still listed.
C7_Witness ==
    /\ op.name = "accept"
    /\ Len(prev.revisions) = 2
    /\ Len(doc.revisions) = 1

\* C8: inserting a new pending revision into the editor's document never
\* changes baseContent, also when other revisions are pending and shown.
\* Checked under EditorSpec.
C8_ApplyKeepsBaseContent ==
    op.name = "apply" => doc.baseContent = prev.baseContent

\* C9: while a revision is pending in the editor, rejecting, typing and a
\* content update from the parent leave baseContent unchanged.  Checked under
\* EditorSpec.
C9_OnlyAcceptChangesBaseContent ==
    ( /\ Len(prev.revisions) > 0
      /\ op.name \in { "rejectClick", "rejectAll", "input", "parentSave",
                       "parentReplace" } )
    => doc.baseContent = prev.baseContent

\* C10: without revisions, the spans of buildTextSpans concatenate to the
\* base text, getFinalContent returns it, and the spans are none for the
\* empty text and otherwise one unchanged span over [0, |T|).
C10_RoundTripWithoutRevisions ==
    LET spans == buildTextSpans(doc.baseContent, <<>>)
        T == doc.baseContent
    IN  /\ Join([ i \in 1..Len(spans) |-> spans[i].text ]) = T
        /\ getFinalContent([ doc EXCEPT !.revisions = <<>> ]) = T
        /\ T = <<>> => spans = <<>>
        /\ T # <<>> => /\ Len(spans) = 1
                       /\ spans[1].type = "unchanged"
                       /\ spans[1].text = T
                       /\ spans[1].startPos = 0
                       /\ spans[1].endPos = Len(T)

\* A document without revisions whose base text an accepted revision made.
C10_Witness ==
    /\ doc.revisions = <<>>
    /\ op.name = "accept"
    /\ doc.baseContent # <<>>
    /\ doc.baseContent # prev.baseContent

\* Whether part occurs in text as a contiguous run of characters.
Contains(text, part) ==
    \E i \in 0..(Len(text) - Len(part)) :
        SubSeq(text, i + 1, i + Len(part)) = part

\* The sum of the lengths of the texts of the first k spans.
RECURSIVE TextLength(_, _)
TextLength(spans, k) ==
    IF k = 0 THEN 0 ELSE Len(spans[k].text) + TextLength(spans, k - 1)

\* How many spans are of a kind.
CountOfType(spans, type) ==
    Cardinality({ i \in 1..Len(spans) : spans[i].type = type })

\* C11: the output of getFullContextContent contains, for every pending
\* revision, [DELETED: <originalSpan.text>], followed at once by
\* [INSERTED: <newSpan.text>] when the revision has a newSpan; every unchanged
\* span is in it verbatim and nothing else is: its length is that of the
\* span texts and the markers' brackets.
C11_ContextHasMarkers ==
    \A out \in { getFullContextContent(doc) },
       spans \in { buildTextSpans(doc.baseContent, doc.revisions) } :
        /\ \A r \in Revs(doc) :
              r.status = "pending" =>
                  Contains(out, DeletedMarker(r.originalSpan.text)
                                \o (IF r.newSpan # <<>>
                                    THEN InsertedMarker(r.newSpan[1].text)
                                    ELSE <<>>))
        /\ \A i \in 1..Len(spans) :
              spans[i].type = "unchanged" => Contains(out, spans[i].text)
        /\ Len(out) = TextLength(spans, Len(spans))
                      + Len(DeletedMarker(<<>>)) * CountOfType(spans, "deleted")
                      + Len(InsertedMarker(<<>>)) * CountOfType(spans, "inserted")

\* A document with unchanged text, a revision that replaces text and a
\* revision that only deletes.
C11_Witness ==
    /\ Len(doc.revisions) = 2
    /\ \E r \in Revs(doc) : r.newSpan # <<>> /\ r.originalSpan.text # <<>>
    /\ \E r \in Revs(doc) : r.newSpan = <<>>
    /\ CountOfType(buildTextSpans(doc.baseContent, doc.revisions), "unchanged") > 0
    /\ Contains(getFullContextContent(doc), InsertedMarker(<<"x", "y">>))

\* C12: rejectRevision is idempotent, and rejecting an id that no revision
\* has returns a document with the same baseContent and the same revisions.
\* The step taken is one reject; the second is applied to its result.
C12_RejectIsIdempotent ==
    /\ op.name = "reject" => rejectRevision(doc, op.id) = doc
    /\ (op.name = "reject" /\ ~HasId(prev.revisions, op.id))
       => /\ doc.baseContent = prev.baseContent
          /\ doc.revisions = prev.revisions
    /\ \A revisionId \in KnownIds :
          rejectRevision(rejectRevision(doc, revisionId), revisionId)
              = rejectRevision(doc, revisionId)

\* An id that was rejected before is rejected again while another revision
\* is pending.
C12_Witness ==
    /\ op.name = "reject"
    /\ op.id \in { RevisionId(n) : n \in 1..created }
    /\ ~HasId(prev.revisions, op.id)
    /\ Len(prev.revisions) > 0
    /\ doc = prev

\* C13: acceptRevision with an id that no revision of the document has
\* returns the document unchanged: same baseContent, revisions and
\* activeRevisionId.
C13_AcceptUnknownIsNoOp ==
    (op.name = "accept" /\ ~HasId(prev.revisions, op.id))
    => /\ doc.baseContent = prev.baseContent
       /\ doc.revisions = prev.revisions
       /\ doc.activeRevisionId = prev.activeRevisionId

\* An id that no revision has is accepted while a revision is pending and
\* active.
C13_Witness ==
    /\ op.name = "accept"
    /\ ~HasId(prev.revisions, op.id)
    /\ Len(prev.revisions) > 0
    /\ prev.activeRevisionId # NoId
    /\ doc = prev

\* C14: a proposal whose range has startPos > endPos, or a bound outside
\* [0, length of the base text], creates no revision and leaves the document
\* as it was: an insert that changed the document had a valid range.
C14_InvalidRangeIsRejected ==
    (op.name = "insert" /\ doc # prev)
    => /\ Len(doc.revisions) = Len(prev.revisions) + 1
       /\ ValidRange(doc.revisions[Len(doc.revisions)], prev.baseContent)

\* C15: for a pending revision whose originalSpan is zero-length, a pure
\* insertion, buildTextSpans emits no span of kind deleted, only the
\* revision's inserted span.
C15_PureInsertionHasNoDeletedSpan ==
    LET spans == buildTextSpans(doc.baseContent, doc.revisions)
    IN  \A r \in Revs(doc) :
            ( /\ r.status = "pending"
              /\ r.originalSpan.startPos = r.originalSpan.endPos )
            => \A i \in 1..Len(spans) :
                  ~(spans[i].type = "deleted" /\ spans[i].id = r.originalSpan.id)

\* C16: getFinalContent shows only unchanged text and accepted changes: the
\* replacement text of a pending revision is not in it, and the original text
\* the revision would replace is.
C16_FinalContentExcludesPending ==
    (AllPending(doc) /\ AllValid(doc) /\ NonOverlapping(doc))
    => \A r \in Revs(doc) :
          /\ r.newSpan # <<>> => ~Contains(getFinalContent(doc), r.newSpan[1].text)
          /\ Contains(getFinalContent(doc), r.originalSpan.text)

\* A span without its id: kind, text and position.
Semantics(span) ==
    [ type |-> span.type, text |-> span.text,
      startPos |-> span.startPos, endPos |-> span.endPos ]

C18_RevisionOnlyFromWholeResponse ==
    /\ op.name \in { "submit", "chunk", "close", "failedResponse", "blankResponse" }
       => /\ doc.baseContent = prev.baseContent
          /\ doc.revisions = prev.revisions
    /\ (op.name = "response" /\ request[1].closed)
       => /\ doc.baseContent = prev.baseContent
          /\ doc.revisions = prev.revisions

\* C19: the editor applies creations, acceptances and rejections in the order
\* they arrive, each to the document the earlier ones left: a click is the
\* pure operation on the current document, and an arriving response or an
\* applied suggestion adds its revision to the current document.  Checked
\* under EditorSpec.
C19_OperationsApplyInArrivalOrder ==
    /\ op.name = "acceptClick" => doc = acceptRevision(prev, op.id)
    /\ op.name = "rejectClick" => doc = rejectRevision(prev, op.id)
    /\ op.name = "response"
       => /\ doc.baseContent = prev.baseContent
          /\ Len(doc.revisions) = Len(prev.revisions) + 1
          /\ SubSeq(doc.revisions, 1, Len(prev.revisions)) = prev.revisions
          /\ doc.revisions[Len(doc.revisions)].id = op.id

\* C20: a click on the accept control of a pending revision merges it:
\* baseContent is the previous baseContent with the revision's range replaced
\* by its replacement, and the revision is no longer listed.  Checked under
\* EditorSpec.
C20_AcceptClickMerges ==
    (op.name = "acceptClick" /\ HasId(prev.revisions, op.id))
    => LET revision == CHOOSE r \in Revs(prev) : r.id = op.id
           before == Substring(prev.baseContent, 0, revision.originalSpan.startPos)
           after == SubstringFrom(prev.baseContent, revision.originalSpan.endPos)
       IN  /\ doc.baseContent = before \o NewTextOf(revision) \o after
           /\ ~HasId(doc.revisions, op.id)

\* C21: a click on the accept or reject control of one pending revision
\* removes that revision only: every other revision is still listed
\* afterwards, with the same range and replacement.  Checked under EditorSpec.
C21_ClickResolvesOneRevision ==
    (op.name \in { "acceptClick", "rejectClick" } /\ HasId(prev.revisions, op.id))
    => /\ ~HasId(doc.revisions, op.id)
       /\ \A r \in Revs(prev) :
             r.id # op.id
             => \E q \in Revs(doc) :
                   /\ q.id = r.id
                   /\ q.originalSpan.startPos = r.originalSpan.startPos
                   /\ q.originalSpan.endPos = r.originalSpan.endPos
                   /\ q.newSpan = r.newSpan

\* C22: every pending revision is rendered with an accept and a reject
\* control that carry its id, a pure deletion included, by the editor's
\* markup and by InlineRevisionRenderer.
C22_EveryRevisionHasControls ==
    \A r \in Revs(doc) :
        r.status = "pending"
        => /\ r.id \in RenderedButtons(doc)
           /\ r.id \in InlineRendererControls(doc)

\* C23: for a valid range [startPos, endPos) of a text and any newText,
\* createRevision returns a pending revision whose originalSpan is of kind
\* deleted, holds the text of the range and the given positions, and whose
\* newSpan is absent exactly when newText is empty and otherwise is of kind
\* inserted, holds newText and starts and ends at startPos.
C23_CreateRevisionShape ==
    \A range \in ValidRanges(doc.baseContent), newText \in NewTexts :
        \A r \in { createRevision(doc.baseContent, range[1], range[2], newText,
                                  created + 1) } :
            /\ r.status = "pending"
            /\ r.originalSpan.type = "deleted"
            /\ r.originalSpan.text
                 = SubSeq(doc.baseContent, range[1] + 1, range[2])
            /\ r.originalSpan.startPos = range[1]
            /\ r.originalSpan.endPos = range[2]
            /\ (r.newSpan = <<>>) <=> (newText = <<>>)
            /\ r.newSpan # <<>>
               => /\ Len(r.newSpan) = 1
                  /\ r.newSpan[1].type = "inserted"
                  /\ r.newSpan[1].text = newText
                  /\ r.newSpan[1].startPos = range[1]
                  /\ r.newSpan[1].endPos = range[1]

\* A revision that replaces a non-empty range by a non-empty text has been
\* created and is the last of the list.
C23_Witness ==
    /\ op.name = "insert"
    /\ Len(doc.revisions) = Len(prev.revisions) + 1
    /\ \E range \in ValidRanges(prev.baseContent) :
          /\ range[1] < range[2]
          /\ doc.revisions[Len(doc.revisions)]
               = createRevision(prev.baseContent, range[1], range[2],
                                <<"x", "y">>, created)

\* The orders in which the n elements of a list can be taken.
Orders(n) ==
    { p \in [1..n -> 1..n] : \A i, j \in 1..n : i # j => p[i] # p[j] }

\* rejectRevision applied to d for the pending revisions of a list, one at a
\* time in the order p, from the k-th on.
RECURSIVE RejectEach(_, _, _, _)
RejectEach(d, revisions, p, k) ==
    IF k > Len(revisions) THEN d
    ELSE RejectEach(IF revisions[p[k]].status = "pending"
                    THEN rejectRevision(d, revisions[p[k]].id)
                    ELSE d,
                    revisions, p, k + 1)

\* C24: rejectAllRevisions gives what rejectRevision gives when applied to
\* every pending revision one at a time, in any order: the same baseContent
\* (that of the document), revisions and activeRevisionId.
C24_RejectAllEqualsRejectEach ==
    /\ \A p \in Orders(Len(doc.revisions)) :
          /\ rejectAllRevisions(doc) = RejectEach(doc, doc.revisions, p, 1)
          /\ rejectAllRevisions(doc).baseContent = doc.baseContent
    /\ op.name = "rejectAll"
       => \A p \in Orders(Len(prev.revisions)) :
             doc = RejectEach(prev, prev.revisions, p, 1)

\* Two pending revisions, one of them active, have been rejected at once.
C24_Witness ==
    /\ op.name = "rejectAll"
    /\ Len(prev.revisions) = 2
    /\ prev.activeRevisionId # NoId
    /\ doc.revisions = <<>>
    /\ doc.activeRevisionId = prev.activeRevisionId

\* C25: after acceptAllRevisions no revision that was pending remains in
\* revisions, for any number and list order of pending revisions.
C25_AcceptAllLeavesNonePending ==
    /\ \A r \in Revs(doc) :
          r.status = "pending" => ~HasId(acceptAllRevisions(doc).revisions, r.id)
    /\ op.name = "acceptAll"
       => \A r \in Revs(prev) :
             r.status = "pending" => ~HasId(doc.revisions, r.id)

\* Two pending revisions, listed in ascending order of their positions and
\* the first changing the length of the text, have been accepted at once.
C25_Witness ==
    /\ op.name = "acceptAll"
    /\ Len(prev.revisions) = 2
    /\ prev.revisions[1].originalSpan.endPos <= prev.revisions[2].originalSpan.startPos
    /\ prev.revisions[1].originalSpan.startPos < prev.revisions[1].originalSpan.endPos
    /\ prev.revisions[1].newSpan # <<>>
    /\ doc.revisions = <<>>

\* C26: from a document with no revisions, after any sequence of inserts
\* with valid ranges, rejectRevision and rejectAllRevisions, the text every
\* revision captured is the text of its range in baseContent.  Checked under
\* RejectOnlySpec.
C26_AnchorsValidWithoutAcceptance ==
    \A r \in Revs(doc) :
        /\ ValidRange(r, doc.baseContent)
        /\ r.originalSpan.text
             = SubSeq(doc.baseContent, r.originalSpan.startPos + 1,
                      r.originalSpan.endPos)

\* One of two revisions has been rejected; the one that stays captured a
\* text that is not empty.
C26_Witness ==
    /\ op.name = "reject"
    /\ Len(prev.revisions) = 2
    /\ Len(doc.revisions) = 1
    /\ doc.revisions[1].originalSpan.text # <<>>
    /\ doc.revisions[1].originalSpan.endPos < Len(doc.baseContent)

\* The text every revision of d captured is the text of its range in the
\* base text of d.
AnchorsValid(d) ==
    \A r \in Revs(d) :
        /\ ValidRange(r, d.baseContent)
        /\ r.originalSpan.text
             = SubSeq(d.baseContent, r.originalSpan.startPos + 1,
                      r.originalSpan.endPos)

\* C27: for pending revisions with mutually non-overlapping valid ranges,
\* accepting the revision with the greatest startPos leaves every remaining
\* revision anchored in the new baseContent and getFinalContent as it was.
C27_AcceptGreatestStartKeepsRest ==
    ( /\ op.name = "accept"
      /\ HasId(prev.revisions, op.id)
      /\ AllPending(prev)
      /\ AnchorsValid(prev)
      /\ NonOverlapping(prev)
      /\ \A a, r \in Revs(prev) :
            a.id = op.id => r.originalSpan.startPos <= a.originalSpan.startPos )
    => /\ AnchorsValid(doc)
       /\ getFinalContent(doc) = getFinalContent(prev)

C29_PendingChangeMatchesContent ==
    /\ Len(pendingChange) <= 1
    /\ pendingChange # <<>>
       => Substring(localContent, pendingChange[1].range[1],
                    pendingChange[1].range[2])
            = pendingChange[1].originalText
    /\ op.name = "acceptChange"
       => \A a \in { lastAccept[1] } :
             /\ Substring(a.localContent, a.change.range[1], a.change.range[2])
                  = a.change.originalText
             /\ localContent
                  = Substring(a.localContent, 0, a.change.range[1])
                    \o a.change.newText
                    \o SubstringFrom(a.localContent, a.change.range[2])


\* C30: in the editor, whenever no revision is pending and a content has been
\* reported through onChange, the most recently reported content equals
\* baseContent.  saveTimer holds the most recently reported content from the
\* onChange call until the parent's save of it; the property is stated over
\* the states in which that save is still awaited, where the reported
\* content is the one about to be persisted.
C30_ReportedContentIsBaseContent ==
    (variant # "part_002" /\ saveTimer # <<>> /\ PendingCount(doc) = 0)
        => saveTimer[1] = doc.baseContent

====
